---- MODULE Spec2Model ----
(***************************************************************************)
(* A model of scripts/regima_ai_processor.py: the RegimAAIProcessor        *)
(* pipeline (configuration loading, context construction, prompt routing,  *)
(* report assembly, output writing) and the process around it (main).      *)
(*                                                                         *)
(* Text.  A Python str is modelled as a sequence of atomic pieces of text  *)
(* ("characters" of an abstract alphabet).  Every piece that carries one   *)
(* of the routing keywords, in any letter case, is a piece of its own, so  *)
(* that lower(), title() and the substring test "kw in s" can be computed  *)
(* piece by piece.  "zone concept" is the three pieces zone, space,        *)
(* concept.                                                                *)
(*                                                                         *)
(* JSON.  A value returned by json.load is a tagged record [t, v]:         *)
(* t = "obj" (v: sequence of <<key, value>> in insertion order),           *)
(* "arr" (v: sequence of values), "str" (v: text), "num" (v: integer),     *)
(* "null".                                                                 *)
(***************************************************************************)
EXTENDS Integers, Sequences, FiniteSets, TLC

VARIABLES
    pc,                     \* position of the process in main / run / save_outputs
    run_no,                 \* number of the invocation of the program (1, 2, ...)
    regcyc_file,            \* what open/json.load met for regcyc.json
    cycle_file,             \* what open/json.load met for cycleCompletion.json
    regcyc_data,            \* self.regcyc_data
    cycle_completion_data,  \* self.cycle_completion_data
    analysis_type,          \* self.analysis_type
    prompt,                 \* local `prompt` of generate_analysis / argument of the router
    response,               \* value returned by the last _generate_mock_ai_response call
    analyses,               \* the dict `analyses`: sequence of <<key, text>>, insertion order
    clock,                  \* the wall clock read by datetime.now(), in ticks
    timestamp,              \* local `timestamp` of save_outputs
    idx,                    \* position of the for loop of save_outputs in analyses.items()
    disk,                   \* files of outputs_dir: file name -> file
    raised,                 \* the step of this invocation that raised an exception
    status                  \* exit status of the process

vars == <<pc, run_no, regcyc_file, cycle_file, regcyc_data, cycle_completion_data,
          analysis_type, prompt, response, analyses, clock, timestamp, idx, disk,
          raised, status>>

-----------------------------------------------------------------------------
(* Bounds *)

MaxClock == 3          \* the clock stops advancing at this tick
TicksPerSecond == 2    \* clock ticks within one second of wall time
MaxRuns == 2           \* invocations of the program into one outputs directory
MaxPromptLen == 4      \* pieces of text in a prompt handed directly to the router
MaxRenders == 3        \* renderings of the four templates by one processor
MaxCalls == 2          \* calls of generate_analysis that are compared

-----------------------------------------------------------------------------
(* Text *)

\* str.lower() on one piece.  Only the pieces below differ from their lower case
\* in a way the keyword test can see.
LowerPiece(p) ==
    CASE p = "Zone" -> "zone"
      [] p = "Concept" -> "concept"
      [] p = "Consciousness" -> "consciousness"
      [] p = "Guidance" -> "guidance"
      [] OTHER -> p

Lower(s) == [i \in 1..Len(s) |-> LowerPiece(s[i])]

\* str.title() on one piece.
TitlePiece(p) ==
    CASE p = "zone" -> "Zone"
      [] p = "concept" -> "Concept"
      [] p = "consciousness" -> "Consciousness"
      [] p = "guidance" -> "Guidance"
      [] p = "zone_concept" -> "Zone_Concept"
      [] p = "comprehensive" -> "Comprehensive"
      [] p = "integration" -> "Integration"
      [] OTHER -> p

Title(s) == [i \in 1..Len(s) |-> TitlePiece(s[i])]

\* kw in s
Contains(s, kw) ==
    \E i \in 0..(Len(s) - Len(kw)) : \A j \in 1..Len(kw) : s[i + j] = kw[j]

RECURSIVE Concat(_)
\* "".join(parts)
Concat(parts) == IF parts = <<>> THEN <<>> ELSE Head(parts) \o Concat(Tail(parts))

RECURSIVE Join(_, _)
\* sep.join(parts)
Join(sep, parts) ==
    IF parts = <<>> THEN <<>>
    ELSE IF Len(parts) = 1 THEN parts[1]
    ELSE parts[1] \o sep \o Join(sep, Tail(parts))

-----------------------------------------------------------------------------
(* JSON values *)

JObj(pairs) == [t |-> "obj", v |-> pairs]
JArr(items) == [t |-> "arr", v |-> items]
JStr(text)  == [t |-> "str", v |-> text]
JNum(n)     == [t |-> "num", v |-> n]
JNull       == [t |-> "null", v |-> 0]

EmptyMap  == JObj(<<>>)     \* {}
EmptyList == JArr(<<>>)     \* []

IsObj(x) == x.t = "obj"

\* d.get(key, default) for a dict d
Get(d, key, default) ==
    IF \E i \in 1..Len(d.v) : d.v[i][1] = key
    THEN d.v[CHOOSE i \in 1..Len(d.v) : d.v[i][1] = key][2]
    ELSE default

RECURSIVE Repr(_)
\* repr(x) of a value loaded from JSON
Repr(x) ==
    CASE x.t = "str"  -> <<"'">> \o x.v \o <<"'">>
      [] x.t = "num"  -> <<ToString(x.v)>>
      [] x.t = "null" -> <<"None">>
      [] x.t = "arr"  ->
            <<"[">> \o Join(<<", ">>, [i \in 1..Len(x.v) |-> Repr(x.v[i])]) \o <<"]">>
      [] x.t = "obj"  ->
            <<"{">> \o Join(<<", ">>, [i \in 1..Len(x.v) |->
                        <<"'">> \o x.v[i][1] \o <<"': ">> \o Repr(x.v[i][2])])
                    \o <<"}">>

\* f"{x}": str(x)
Format(x) == IF x.t = "str" THEN x.v ELSE Repr(x)

\* "for item in x" can run: x is a list, a dict or a str
Iterable(x) == x.t \in {"arr", "obj", "str"}

\* the items "for item in x" yields, each as a JSON value
Items(x) ==
    CASE x.t = "arr" -> x.v
      [] x.t = "obj" -> [i \in 1..Len(x.v) |-> JStr(x.v[i][1])]
      [] x.t = "str" -> [i \in 1..Len(x.v) |-> JStr(<<x.v[i]>>)]
      [] OTHER -> <<>>

-----------------------------------------------------------------------------
(* _generate_prompt_context *)

OC == <<"organizationalConsciousness">>
CC == <<"cycleCompletion">>
ZF == <<"zoneConceptFramework">>
PG == <<"professionalGuidance">>
NA == JStr(<<"N/A">>)

\* the f-string of lines 51-61 evaluates without an AttributeError
HeadlineOK(data) ==
    /\ IsObj(data)
    /\ IsObj(Get(data, OC, EmptyMap))
    /\ IsObj(Get(data, CC, EmptyMap))

\* The headline with a section heading that names no category.
HeadlinePlain(data) ==
    <<"\n# RegimA Organizational Learning Cycle Context\n\n## Current Organizational State\n- **",
      "Consciousness", " Level**: ">>
    \o Format(Get(Get(data, OC, EmptyMap), <<"currentState">>, NA))
    \o <<"\n- **Evolution Level**: ">>
    \o Format(Get(Get(data, OC, EmptyMap), <<"evolutionLevel">>, NA))
    \o <<"\n- **Cycle Status**: ">>
    \o Format(Get(Get(data, CC, EmptyMap), <<"status">>, NA))
    \o <<"\n\n## Framework\n### Core Elements:\n">>

Headline(data) ==
    <<"\n# RegimA Organizational Learning Cycle Context\n\n## Current Organizational State\n- **",
      "Consciousness", " Level**: ">>
    \o Format(Get(Get(data, OC, EmptyMap), <<"currentState">>, NA))
    \o <<"\n- **Evolution Level**: ">>
    \o Format(Get(Get(data, OC, EmptyMap), <<"evolutionLevel">>, NA))
    \o <<"\n- **Cycle Status**: ">>
    \o Format(Get(Get(data, CC, EmptyMap), <<"status">>, NA))
    \o <<"\n\n## ", "Zone", " ", "Concept", " Framework\n### Core Elements:\n">>

\* self.regcyc_data.get('zoneConceptFramework', {}).get('coreElements', {})
CoreElements(data) == Get(Get(data, ZF, EmptyMap), <<"coreElements">>, EmptyMap)

\* ', '.join(x) can run: every item of x is a str
Joinable(x) == Iterable(x) /\ \A i \in 1..Len(Items(x)) : Items(x)[i].t = "str"

\* lines 64-69 run without an AttributeError or TypeError
CoreOK(data) ==
    /\ IsObj(Get(data, ZF, EmptyMap))
    /\ IsObj(CoreElements(data))
    /\ \A i \in 1..Len(CoreElements(data).v) :
          LET details == CoreElements(data).v[i][2] IN
          /\ IsObj(details)
          /\ Joinable(Get(details, <<"keyTechnologies">>, EmptyList))

CoreBlock(element, details) ==
    <<"\n**">> \o Title(element) \o <<"**:\n">>
    \o <<"- Relevance: ">> \o Format(Get(details, <<"relevance">>, NA)) \o <<"/10\n">>
    \o <<"- Focus: ">> \o Format(Get(details, <<"focus">>, NA)) \o <<"\n">>
    \o <<"- Key Technologies: ">>
    \o Join(<<", ">>, LET kt == Items(Get(details, <<"keyTechnologies">>, EmptyList))
                      IN [j \in 1..Len(kt) |-> kt[j].v])
    \o <<"\n">>

CoreBlocks(data) ==
    Concat([i \in 1..Len(CoreElements(data).v) |->
              CoreBlock(CoreElements(data).v[i][1], CoreElements(data).v[i][2])])

\* a bullet list: one "- {item}\n" per item
Bullets(x) == Concat([i \in 1..Len(Items(x)) |-> <<"- ">> \o Format(Items(x)[i]) \o <<"\n">>])

FocusAreas(data) == Get(Get(data, PG, EmptyMap), <<"focusAreas">>, EmptyList)
Insights(data)   == Get(Get(data, CC, EmptyMap), <<"insights">>, EmptyList)

\* lines 73-81 run without an AttributeError or TypeError
ListsOK(data) ==
    /\ IsObj(Get(data, PG, EmptyMap))
    /\ Iterable(FocusAreas(data))
    /\ Iterable(Insights(data))

\* _generate_prompt_context returns (TRUE) or raises (FALSE)
ContextOK(data) == HeadlineOK(data) /\ CoreOK(data) /\ ListsOK(data)

\* the str _generate_prompt_context returns
_generate_prompt_context(data) ==
    Headline(data)
    \o CoreBlocks(data)
    \o <<"\n## Professional ", "Guidance", " Focus Areas:\n">>
    \o Bullets(FocusAreas(data))
    \o <<"\n## Current Cycle Insights:\n">>
    \o Bullets(Insights(data))

-----------------------------------------------------------------------------
(* The four templates and the router *)

\* Each template is a fixed text; it is written here by its first heading.
_generate_zone_concept_response ==
    <<"\n## Quantum Zone Concept Framework Analysis\n...">>
\* The template with the headline field of the configuration written into it.
ConsciousnessResponseInterpolated ==
    <<"\n## Quantum Organizational Consciousness Evolution Analysis\n...", "Current state: ">>
    \o (IF HeadlineOK(regcyc_data)
        THEN Format(Get(Get(regcyc_data, OC, EmptyMap), <<"currentState">>, NA))
        ELSE <<>>)

_generate_consciousness_response ==
    <<"\n## Quantum Organizational Consciousness Evolution Analysis\n...">>
_generate_guidance_response ==
    <<"\n## Quantum Professional Guidance Enhancement Analysis\n...">>
_generate_comprehensive_response ==
    <<"\n## Quantum RegimA Organizational Learning Cycle Analysis\n...">>

\* The chain with its first two tests in the other order.
RouterConsciousnessFirst(p) ==
    IF Contains(Lower(p), <<"consciousness">>) THEN _generate_consciousness_response
    ELSE IF Contains(Lower(p), <<"zone", " ", "concept">>) THEN _generate_zone_concept_response
    ELSE IF Contains(Lower(p), <<"guidance">>) THEN _generate_guidance_response
    ELSE _generate_comprehensive_response

\* The if / elif chain of _generate_mock_ai_response.  The method first calls
\* _generate_prompt_context (and drops the result), so it raises when that raises:
\* the actions that call it test ContextOK before they use this value.
_generate_mock_ai_response(p) ==
    IF Contains(Lower(p), <<"zone", " ", "concept">>) THEN _generate_zone_concept_response
    ELSE IF Contains(Lower(p), <<"consciousness">>) THEN _generate_consciousness_response
    ELSE IF Contains(Lower(p), <<"guidance">>) THEN _generate_guidance_response
    ELSE _generate_comprehensive_response

-----------------------------------------------------------------------------
(* The environment: configuration documents, ANALYSIS_TYPE, the file system *)

\* {"organizationalConsciousness": {"currentState": "Active"}}
ActiveConfig ==
    JObj(<< <<OC, JObj(<< <<<<"currentState">>, JStr(<<"Active">>)>> >>)>> >>)

\* a document with every section filled, whose texts carry the routing keywords
RichConfig ==
    JObj(<<
      <<OC, JObj(<< <<<<"currentState">>, JStr(<<"guidance">>)>>,
                    <<<<"evolutionLevel">>, JNum(3)>> >>)>>,
      <<CC, JObj(<< <<<<"status">>, JNull>>,
                    <<<<"insights">>, JArr(<<JStr(<<"consciousness">>)>>)>> >>)>>,
      <<ZF, JObj(<< <<<<"coreElements">>, JObj(<<
                      <<<<"integration">>, JObj(<<
                          <<<<"relevance">>, JNum(9)>>,
                          <<<<"keyTechnologies">>,
                            JArr(<<JStr(<<"zone", " ", "concept">>), JStr(<<"AI">>)>>)>> >>)>>
                    >>)>> >>)>>,
      <<PG, JObj(<< <<<<"focusAreas">>, JArr(<<JStr(<<"Zone", " ", "Concept">>)>>)>> >>)>>
    >>)

\* valid JSON documents that are not the mappings the accessors expect
ListConfig      == JArr(<<JNum(1), JNum(2)>>)                      \* [1, 2]
FlatConfig      == JObj(<< <<OC, JStr(<<"Active">>)>> >>)          \* section is a str
BadFocusConfig  == JObj(<< <<PG, JObj(<< <<<<"focusAreas">>, JNum(5)>> >>)>> >>)

Configs == <<EmptyMap, ActiveConfig, RichConfig, ListConfig, FlatConfig, BadFocusConfig>>

\* What open(file_path, 'r', encoding='utf-8') and json.load can meet.
Files ==
    <<[kind |-> "missing",    content |-> JNull],     \* no such file
      [kind |-> "bad_json",   content |-> JNull],     \* UTF-8 text that is not JSON
      [kind |-> "bad_utf8",   content |-> JNull],     \* bytes that are not UTF-8
      [kind |-> "unreadable", content |-> JNull]>>    \* open is refused (PermissionError)
    \o [i \in 1..Len(Configs) |-> [kind |-> "valid", content |-> Configs[i]]]

\* os.environ: ANALYSIS_TYPE unset, or set to a string
Environ ==
    <<[set |-> FALSE, val |-> ""],
      [set |-> TRUE, val |-> "full"],
      [set |-> TRUE, val |-> "zone_concept_only"],
      [set |-> TRUE, val |-> "consciousness_only"],
      [set |-> TRUE, val |-> "guidance_only"],
      [set |-> TRUE, val |-> "comprehensive_only"],
      [set |-> TRUE, val |-> ""]>>

\* The choices the environment makes in a behaviour: indices of Files for each
\* document, indices of Environ, outcomes of mkdir and of writing one file.
AnyWorld ==
    [regcyc |-> 1..Len(Files),
     cycle  |-> 1..5,
     env    |-> 1..Len(Environ),
     mkdir  |-> {"ok", "fails"},
     io     |-> {"ok", "open_fails", "write_fails"}]

\* A world whose storage never fails and whose documents are absent or well-formed.
CalmWorld ==
    [regcyc |-> {1, 5, 6},
     cycle  |-> {1},
     env    |-> 1..Len(Environ),
     mkdir  |-> {"ok"},
     io     |-> {"ok"}]

-----------------------------------------------------------------------------
(* The clock *)

\* datetime.now().strftime("%Y%m%d_%H%M%S"): the instant cut to whole seconds
Strftime(c) == <<ToString(c \div TicksPerSecond)>>

\* datetime.now().isoformat(): the instant with its fraction of a second
Isoformat(c) == <<ToString(c \div TicksPerSecond), ".", ToString(c % TicksPerSecond)>>

-----------------------------------------------------------------------------
(* Construction: RegimAAIProcessor.__init__, called by main *)

\* _load_json_file on a file f of Files: the value returned, or the exception
\* that leaves the method
_load_json_file(f) ==
    CASE f.kind = "valid"    -> [exc |-> "", val |-> f.content]
      [] f.kind = "missing"  -> [exc |-> "", val |-> EmptyMap]     \* except FileNotFoundError
      [] f.kind = "bad_json" -> [exc |-> "", val |-> EmptyMap]     \* except json.JSONDecodeError
      [] f.kind = "bad_utf8" -> [exc |-> "UnicodeDecodeError", val |-> JNull]
      [] OTHER               -> [exc |-> "PermissionError", val |-> JNull]

\* an exception leaves main: the interpreter prints the traceback and exits with 1
Crash(where) ==
    /\ pc' = "exited"
    /\ raised' = where
    /\ status' = "1"

\* self.outputs_dir.mkdir(exist_ok=True)
Mkdir(W) ==
    /\ pc = "mkdir"
    /\ \E r \in W.mkdir :
          IF r = "ok" THEN pc' = "load_regcyc" /\ UNCHANGED <<raised, status>>
          ELSE Crash("mkdir")
    /\ UNCHANGED <<run_no, regcyc_file, cycle_file, regcyc_data, cycle_completion_data,
                   analysis_type, prompt, response, analyses, clock, timestamp, idx, disk>>

\* self.regcyc_data = self._load_json_file("regcyc.json")
LoadRegcyc(W) ==
    /\ pc = "load_regcyc"
    /\ \E i \in W.regcyc :
          /\ regcyc_file' = Files[i].kind
          /\ IF _load_json_file(Files[i]).exc = ""
             THEN /\ regcyc_data' = _load_json_file(Files[i]).val
                  /\ pc' = "load_cycle"
                  /\ UNCHANGED <<raised, status>>
             ELSE /\ Crash("load_regcyc")
                  /\ UNCHANGED regcyc_data
    /\ UNCHANGED <<run_no, cycle_file, cycle_completion_data, analysis_type, prompt,
                   response, analyses, clock, timestamp, idx, disk>>

\* self.cycle_completion_data = self._load_json_file("cycleCompletion.json")
LoadCycleCompletion(W) ==
    /\ pc = "load_cycle"
    /\ \E i \in W.cycle :
          /\ cycle_file' = Files[i].kind
          /\ IF _load_json_file(Files[i]).exc = ""
             THEN /\ cycle_completion_data' = _load_json_file(Files[i]).val
                  /\ pc' = "getenv"
                  /\ UNCHANGED <<raised, status>>
             ELSE /\ Crash("load_cycle")
                  /\ UNCHANGED cycle_completion_data
    /\ UNCHANGED <<run_no, regcyc_file, regcyc_data, analysis_type, prompt,
                   response, analyses, clock, timestamp, idx, disk>>

\* os.getenv('ANALYSIS_TYPE', 'full')
Getenv(e) == IF e.set THEN e.val ELSE "full"

\* self.analysis_type = os.getenv(...); then main calls processor.run(), which
\* calls generate_analysis: analyses = {}
ReadAnalysisType(W) ==
    /\ pc = "getenv"
    /\ \E i \in W.env : analysis_type' = Getenv(Environ[i])
    /\ analyses' = <<>>
    /\ pc' = "zone_concept"
    /\ UNCHANGED <<run_no, regcyc_file, cycle_file, regcyc_data, cycle_completion_data,
                   prompt, response, clock, timestamp, idx, disk, raised, status>>

-----------------------------------------------------------------------------
(* run: generate_analysis *)

\* A handler that logs the error and lets run return.
RunExceptSwallowed(where) ==
    /\ pc' = "exited"
    /\ raised' = where
    /\ status' = "0"

\* except Exception as e: logger.error(...); sys.exit(1)
RunExcept(where) ==
    /\ pc' = "exited"
    /\ raised' = where
    /\ status' = "1"

\* the fixed instruction phrases of the four prompts
Instruction(key) ==
    CASE key = "zone_concept" ->
            <<"Analyze the ", "Zone", " ", "Concept",
              " framework and provide strategic recommendations">>
      [] key = "consciousness" ->
            <<"Analyze the organizational ", "consciousness",
              " evolution and provide development insights">>
      [] key = "guidance" ->
            <<"Analyze the professional ", "guidance",
              " framework and provide enhancement recommendations">>
      [] OTHER ->
            <<"Provide a comprehensive analysis of the RegimA organizational learning cycle">>

\* f"<instruction>. Context: {self._generate_prompt_context()}"
Prompt(key, data) == Instruction(key) \o <<". Context: ">> \o _generate_prompt_context(data)

\* A map that puts a new key before the keys it holds.
SetItemFront(d, key, value) ==
    IF \E i \in 1..Len(d) : d[i][1] = key
    THEN [i \in 1..Len(d) |-> IF d[i][1] = key THEN <<key, value>> ELSE d[i]]
    ELSE << <<key, value>> >> \o d

\* analyses[key] = value
SetItem(d, key, value) ==
    IF \E i \in 1..Len(d) : d[i][1] = key
    THEN [i \in 1..Len(d) |-> IF d[i][1] = key THEN <<key, value>> ELSE d[i]]
    ELSE Append(d, <<key, value>>)

\* One "if self.analysis_type == ...:" block of generate_analysis, for the
\* category `key`, taken in the modes `modes`, followed by the position `next`.
Analyse(key, modes, next) ==
    /\ pc = key
    /\ IF analysis_type \in modes
       THEN IF ContextOK(regcyc_data)
            THEN /\ prompt' = Prompt(key, regcyc_data)
                 /\ response' = _generate_mock_ai_response(prompt')
                 /\ analyses' = SetItem(analyses, key, response')
                 /\ pc' = next
                 /\ UNCHANGED <<raised, status>>
            ELSE /\ RunExcept("assembly")
                 /\ UNCHANGED <<prompt, response, analyses>>
       ELSE /\ pc' = next
            /\ UNCHANGED <<prompt, response, analyses, raised, status>>
    /\ UNCHANGED <<run_no, regcyc_file, cycle_file, regcyc_data, cycle_completion_data,
                   analysis_type, clock, timestamp, idx, disk>>

AnalyseZoneConcept   == Analyse("zone_concept", {"full", "zone_concept_only"}, "consciousness")
AnalyseConsciousness == Analyse("consciousness", {"full", "consciousness_only"}, "guidance")
AnalyseGuidance      == Analyse("guidance", {"full", "guidance_only"}, "comprehensive")
\* The last block, taken in a mode of its own as the other three are.
AnalyseComprehensiveOwnMode ==
    Analyse("comprehensive", {"full", "comprehensive_only"}, "save_outputs")

AnalyseComprehensive == Analyse("comprehensive", {"full"}, "save_outputs")

-----------------------------------------------------------------------------
(* run: save_outputs *)

AnalysisFileName(key, ts) == <<"regima_", key, "_analysis_">> \o ts \o <<".md">>
SummaryFileName           == <<"ai_insights_summary.md">>
\* The snapshot named from a second reading of the clock.
SnapshotFileNameNow(ts)   == <<"regima_ai_analysis_">> \o Strftime(clock) \o <<".json">>
SnapshotFileName(ts)      == <<"regima_ai_analysis_">> \o ts \o <<".json">>

\* the file system after "with open(name, 'w') as f: f.write(text)" ended as
\* `outcome`: the whole text is in the file, or open raised and nothing changed,
\* or the file was created or truncated and a write raised
WriteFile(d, name, text, outcome) ==
    IF outcome = "open_fails" THEN d
    ELSE [n \in DOMAIN d \cup {name} |->
            IF n = name
            THEN [complete |-> outcome = "ok", run |-> run_no,
                  text |-> IF outcome = "ok" THEN text ELSE [truncated |-> TRUE]]
            ELSE d[n]]

\* timestamp = datetime.now().strftime("%Y%m%d_%H%M%S")
CaptureTimestamp ==
    /\ pc = "save_outputs"
    /\ timestamp' = Strftime(clock)
    /\ idx' = 1
    /\ pc' = "for_analyses"
    /\ UNCHANGED <<run_no, regcyc_file, cycle_file, regcyc_data, cycle_completion_data,
                   analysis_type, prompt, response, analyses, clock, disk, raised, status>>

\* what one turn of the for loop writes into the per-category file
AnalysisText(key, content) ==
    [title |-> TitlePiece(key),
     generated |-> Isoformat(clock),
     analysis_type |-> analysis_type,
     content |-> content]

\* A loop that catches the failure of a write and goes on with the next item.
WriteAnalysisCaught(W) ==
    /\ pc = "for_analyses"
    /\ idx <= Len(analyses)
    /\ \E outcome \in W.io :
          disk' = WriteFile(disk, AnalysisFileName(analyses[idx][1], timestamp),
                            AnalysisText(analyses[idx][1], analyses[idx][2]), outcome)
    /\ idx' = idx + 1
    /\ UNCHANGED <<pc, raised, status>>
    /\ UNCHANGED <<run_no, regcyc_file, cycle_file, regcyc_data, cycle_completion_data,
                   analysis_type, prompt, response, analyses, clock, timestamp>>

\* one turn of "for analysis_type, content in analyses.items()"
WriteAnalysis(W) ==
    /\ pc = "for_analyses"
    /\ idx <= Len(analyses)
    /\ \E outcome \in W.io :
          /\ disk' = WriteFile(disk, AnalysisFileName(analyses[idx][1], timestamp),
                               AnalysisText(analyses[idx][1], analyses[idx][2]), outcome)
          /\ IF outcome = "ok"
             THEN idx' = idx + 1 /\ UNCHANGED <<pc, raised, status>>
             ELSE RunExcept("write_analysis") /\ UNCHANGED idx
    /\ UNCHANGED <<run_no, regcyc_file, cycle_file, regcyc_data, cycle_completion_data,
                   analysis_type, prompt, response, analyses, clock, timestamp>>

\* the text _create_summary returns: its fields that are not fixed wording
_create_summary(an) ==
    [generated |-> Isoformat(clock),
     analysis_type |-> analysis_type,
     consciousness_level |-> Format(Get(Get(regcyc_data, OC, EmptyMap), <<"currentState">>, NA)),
     evolution_stage |-> Format(Get(Get(regcyc_data, OC, EmptyMap), <<"evolutionLevel">>, NA)),
     cycle_status |-> Format(Get(Get(regcyc_data, CC, EmptyMap), <<"status">>, NA)),
     components |-> [i \in 1..Len(an) |-> TitlePiece(an[i][1])]]

\* A save_outputs that returns at once when there is nothing to report.
WriteSummarySkipEmpty(W) ==
    /\ pc = "for_analyses"
    /\ idx > Len(analyses)
    /\ IF analyses = <<>>
       THEN pc' = "exited" /\ status' = "0" /\ UNCHANGED <<raised, disk>>
       ELSE IF HeadlineOK(regcyc_data)
       THEN \E outcome \in W.io :
               /\ disk' = WriteFile(disk, SummaryFileName, _create_summary(analyses), outcome)
               /\ IF outcome = "ok"
                  THEN pc' = "json_output" /\ UNCHANGED <<raised, status>>
                  ELSE RunExcept("write_summary")
       ELSE /\ RunExcept("create_summary")
            /\ UNCHANGED disk
    /\ UNCHANGED <<run_no, regcyc_file, cycle_file, regcyc_data, cycle_completion_data,
                   analysis_type, prompt, response, analyses, clock, timestamp, idx>>

\* summary_content = self._create_summary(analyses); then the summary file is written
WriteSummary(W) ==
    /\ pc = "for_analyses"
    /\ idx > Len(analyses)
    /\ IF HeadlineOK(regcyc_data)
       THEN \E outcome \in W.io :
               /\ disk' = WriteFile(disk, SummaryFileName, _create_summary(analyses), outcome)
               /\ IF outcome = "ok"
                  THEN pc' = "json_output" /\ UNCHANGED <<raised, status>>
                  ELSE RunExcept("write_summary")
       ELSE /\ RunExcept("create_summary")
            /\ UNCHANGED disk
    /\ UNCHANGED <<run_no, regcyc_file, cycle_file, regcyc_data, cycle_completion_data,
                   analysis_type, prompt, response, analyses, clock, timestamp, idx>>

\* The dump with its keys title-cased, as the headers of the per-category files are.
DumpDictTitled(an) == JObj([i \in 1..Len(an) |-> << <<TitlePiece(an[i][1])>>, JStr(an[i][2]) >>])

\* json.dump of a dict of str: an object with the items in insertion order
DumpDict(an) == JObj([i \in 1..Len(an) |-> << <<an[i][1]>>, JStr(an[i][2]) >>])

\* the dict json_output, as json.dump writes it
JsonOutput ==
    JObj(<<
      << <<"timestamp">>, JStr(Isoformat(clock)) >>,
      << <<"analysis_type">>, JStr(<<analysis_type>>) >>,
      << <<"organizational_data">>, JObj(<<
            << <<"consciousness_state">>, Get(regcyc_data, OC, EmptyMap) >>,
            << <<"cycle_status">>, Get(regcyc_data, CC, EmptyMap) >>,
            << <<"zone_framework">>, Get(regcyc_data, ZF, EmptyMap) >> >>) >>,
      << <<"ai_analyses">>, DumpDict(analyses) >>
    >>)

\* json_output = {...}; the snapshot file is written; save_outputs and run return
\* and the process ends with status 0
WriteSnapshot(W) ==
    /\ pc = "json_output"
    /\ IF IsObj(regcyc_data)
       THEN \E outcome \in W.io :
               /\ disk' = WriteFile(disk, SnapshotFileName(timestamp), JsonOutput, outcome)
               /\ IF outcome = "ok"
                  THEN pc' = "exited" /\ status' = "0" /\ UNCHANGED raised
                  ELSE RunExcept("write_snapshot")
       ELSE /\ RunExcept("json_output")
            /\ UNCHANGED disk
    /\ UNCHANGED <<run_no, regcyc_file, cycle_file, regcyc_data, cycle_completion_data,
                   analysis_type, prompt, response, analyses, clock, timestamp, idx>>

-----------------------------------------------------------------------------
(* The clock advances while the process runs; the program is started again *)

\* Time that passes between two invocations is time that passes before the next
\* one first reads the clock, so the clock is advanced only while a process runs.
Tick ==
    /\ pc # "exited"
    /\ clock < MaxClock
    /\ clock' = clock + 1
    /\ UNCHANGED <<pc, run_no, regcyc_file, cycle_file, regcyc_data, cycle_completion_data,
                   analysis_type, prompt, response, analyses, timestamp, idx, disk,
                   raised, status>>

\* A new process: nothing is kept from the last one but the files and the clock.
NewRun ==
    /\ pc = "exited"
    /\ run_no < MaxRuns
    /\ run_no' = run_no + 1
    /\ pc' = "mkdir"
    /\ regcyc_file' = "none"
    /\ cycle_file' = "none"
    /\ regcyc_data' = JNull
    /\ cycle_completion_data' = JNull
    /\ analysis_type' = ""
    /\ prompt' = <<>>
    /\ response' = <<>>
    /\ analyses' = <<>>
    /\ timestamp' = <<>>
    /\ idx' = 0
    /\ raised' = "none"
    /\ status' = "running"
    /\ UNCHANGED <<clock, disk>>

\* python scripts/regima_ai_processor.py is started in an empty outputs directory
Init ==
    /\ pc = "mkdir"
    /\ run_no = 1
    /\ regcyc_file = "none"
    /\ cycle_file = "none"
    /\ regcyc_data = JNull
    /\ cycle_completion_data = JNull
    /\ analysis_type = ""
    /\ prompt = <<>>
    /\ response = <<>>
    /\ analyses = <<>>
    /\ clock = 0
    /\ timestamp = <<>>
    /\ idx = 0
    /\ disk = <<>>
    /\ raised = "none"
    /\ status = "running"

\* one invocation, in any world
Next ==
    \/ Mkdir(AnyWorld)
    \/ LoadRegcyc(AnyWorld)
    \/ LoadCycleCompletion(AnyWorld)
    \/ ReadAnalysisType(AnyWorld)
    \/ AnalyseZoneConcept
    \/ AnalyseConsciousness
    \/ AnalyseGuidance
    \/ AnalyseComprehensive
    \/ CaptureTimestamp
    \/ WriteAnalysis(AnyWorld)
    \/ WriteSummary(AnyWorld)
    \/ WriteSnapshot(AnyWorld)
    \/ Tick

Spec == Init /\ [][Next]_vars

\* invocations one after another into the same outputs directory, in a calm world
NextRuns ==
    \/ Mkdir(CalmWorld)
    \/ LoadRegcyc(CalmWorld)
    \/ LoadCycleCompletion(CalmWorld)
    \/ ReadAnalysisType(CalmWorld)
    \/ AnalyseZoneConcept
    \/ AnalyseConsciousness
    \/ AnalyseGuidance
    \/ AnalyseComprehensive
    \/ CaptureTimestamp
    \/ WriteAnalysis(CalmWorld)
    \/ WriteSummary(CalmWorld)
    \/ WriteSnapshot(CalmWorld)
    \/ Tick
    \/ NewRun

SpecRuns == Init /\ [][NextRuns]_vars

-----------------------------------------------------------------------------
(* The router called on its own, with any prompt *)

Alphabet == {"Zone", "zone", "concept", " ", "Consciousness", "guidance", "x"}

Prompts == UNION {[1..n -> Alphabet] : n \in 0..MaxPromptLen}

\* a processor whose configuration is loaded; the router is about to be called
InitRouter ==
    /\ pc = "router"
    /\ run_no = 1
    /\ regcyc_file = "valid"
    /\ cycle_file = "missing"
    /\ \E i \in 1..Len(Configs) : regcyc_data = Configs[i]
    /\ cycle_completion_data = EmptyMap
    /\ analysis_type = "full"
    /\ prompt \in Prompts
    /\ response = <<>>
    /\ analyses = <<>>
    /\ clock = 0
    /\ timestamp = <<>>
    /\ idx = 0
    /\ disk = <<>>
    /\ raised = "none"
    /\ status = "running"

\* self._generate_mock_ai_response(prompt)
CallRouter ==
    /\ pc = "router"
    /\ IF ContextOK(regcyc_data)
       THEN /\ response' = _generate_mock_ai_response(prompt)
            /\ pc' = "router_returned"
            /\ UNCHANGED raised
       ELSE /\ pc' = "router_raised"
            /\ raised' = "router"
            /\ UNCHANGED response
    /\ UNCHANGED <<run_no, regcyc_file, cycle_file, regcyc_data, cycle_completion_data,
                   analysis_type, prompt, analyses, clock, timestamp, idx, disk, status>>

NextRouter == CallRouter

SpecRouter == InitRouter /\ [][NextRouter]_vars

-----------------------------------------------------------------------------
(* The four template methods called on their own, under changing configurations *)

\* a processor with some configuration; `analyses` is used here as the log of
\* the values the template methods returned: <<category, text, configuration>>
InitRender ==
    /\ pc = "render"
    /\ run_no = 1
    /\ regcyc_file = "valid"
    /\ cycle_file = "missing"
    /\ \E i \in 1..Len(Configs) : regcyc_data = Configs[i]
    /\ cycle_completion_data = EmptyMap
    /\ analysis_type = "full"
    /\ prompt = <<>>
    /\ response = <<>>
    /\ analyses = <<>>
    /\ clock = 0
    /\ timestamp = <<>>
    /\ idx = 1
    /\ disk = <<>>
    /\ raised = "none"
    /\ status = "running"

\* self._generate_zone_concept_response(), self._generate_consciousness_response(),
\* self._generate_guidance_response(), self._generate_comprehensive_response()
RenderTemplates ==
    /\ pc = "render"
    /\ analyses' = analyses \o
          << <<"zone_concept", _generate_zone_concept_response, regcyc_data>>,
             <<"consciousness", _generate_consciousness_response, regcyc_data>>,
             <<"guidance", _generate_guidance_response, regcyc_data>>,
             <<"comprehensive", _generate_comprehensive_response, regcyc_data>> >>
    /\ response' = _generate_comprehensive_response
    /\ pc' = "rendered"
    /\ UNCHANGED <<run_no, regcyc_file, cycle_file, regcyc_data, cycle_completion_data,
                   analysis_type, prompt, clock, timestamp, idx, disk, raised, status>>

\* the processor is given another configuration: self.regcyc_data = ...
Reconfigure ==
    /\ pc = "rendered"
    /\ idx < MaxRenders
    /\ \E i \in 1..Len(Configs) : regcyc_data' = Configs[i]
    /\ idx' = idx + 1
    /\ pc' = "render"
    /\ UNCHANGED <<run_no, regcyc_file, cycle_file, cycle_completion_data, analysis_type,
                   prompt, response, analyses, clock, timestamp, disk, raised, status>>

NextRender == RenderTemplates \/ Reconfigure

SpecRender == InitRender /\ [][NextRender]_vars

-----------------------------------------------------------------------------
(* generate_analysis called on its own, under changing configurations and modes *)

\* a processor with some configuration and some mode, about to run
\* generate_analysis; `disk` is used here as the log of the calls that
\* returned: [mode, data, map]
InitAnalysis ==
    /\ pc = "zone_concept"
    /\ run_no = 1
    /\ regcyc_file = "valid"
    /\ cycle_file = "missing"
    /\ \E i \in 1..Len(Configs) : regcyc_data = Configs[i]
    /\ cycle_completion_data = EmptyMap
    /\ \E e \in 1..Len(Environ) : analysis_type = Getenv(Environ[e])
    /\ prompt = <<>>
    /\ response = <<>>
    /\ analyses = <<>>
    /\ clock = 0
    /\ timestamp = <<>>
    /\ idx = 1
    /\ disk = <<>>
    /\ raised = "none"
    /\ status = "running"

\* return analyses
ReturnAnalyses ==
    /\ pc = "save_outputs"
    /\ disk' = Append(disk, [mode |-> analysis_type, data |-> regcyc_data, map |-> analyses])
    /\ pc' = "returned"
    /\ UNCHANGED <<run_no, regcyc_file, cycle_file, regcyc_data, cycle_completion_data,
                   analysis_type, prompt, response, analyses, clock, timestamp, idx,
                   raised, status>>

\* another processor, with a configuration and a mode of its own, runs
\* generate_analysis: analyses = {}
CallAgain ==
    /\ pc = "returned"
    /\ idx < MaxCalls
    /\ \E i \in 1..Len(Configs) : regcyc_data' = Configs[i]
    /\ \E e \in 1..Len(Environ) : analysis_type' = Getenv(Environ[e])
    /\ analyses' = <<>>
    /\ idx' = idx + 1
    /\ pc' = "zone_concept"
    /\ UNCHANGED <<run_no, regcyc_file, cycle_file, cycle_completion_data, prompt,
                   response, clock, timestamp, disk, raised, status>>

NextAnalysis ==
    \/ AnalyseZoneConcept
    \/ AnalyseConsciousness
    \/ AnalyseGuidance
    \/ AnalyseComprehensive
    \/ ReturnAnalyses
    \/ CallAgain

SpecAnalysis == InitAnalysis /\ [][NextAnalysis]_vars

-----------------------------------------------------------------------------
(* Properties *)

Categories == <<"zone_concept", "consciousness", "guidance", "comprehensive">>

\* the keys of a dict, in insertion order, and as a set
Keys(d)   == [i \in 1..Len(d) |-> d[i][1]]
KeySet(d) == {d[i][1] : i \in 1..Len(d)}

\* generate_analysis has returned its map to run
Assembled ==
    \/ pc \in {"save_outputs", "for_analyses", "json_output"}
    \/ pc = "exited" /\ raised \in {"none", "write_analysis", "create_summary",
                                     "write_summary", "json_output", "write_snapshot"}

\* the template that belongs to a category
OwnTemplate(key) ==
    CASE key = "zone_concept"  -> _generate_zone_concept_response
      [] key = "consciousness" -> _generate_consciousness_response
      [] key = "guidance"      -> _generate_guidance_response
      [] OTHER                 -> _generate_comprehensive_response

\* C1: for every mode and every category generate_analysis includes, the text
\* stored under the category's key is that category's own template, and the
\* prompt handed to the router is the category's instruction phrase, then
\* ". Context: ", then the context block.
C1_OwnTemplate ==
    /\ \A i \in 1..Len(analyses) : analyses[i][2] = OwnTemplate(analyses[i][1])
    /\ Len(analyses) > 0
          => prompt = Instruction(analyses[Len(analyses)][1]) \o <<". Context: ">>
                        \o _generate_prompt_context(regcyc_data)

\* the key set the mode stands for
ModeKeys(mode) ==
    CASE mode = "full"               -> {"zone_concept", "consciousness", "guidance", "comprehensive"}
      [] mode = "zone_concept_only"  -> {"zone_concept"}
      [] mode = "consciousness_only" -> {"consciousness"}
      [] mode = "guidance_only"      -> {"guidance"}
      [] OTHER                       -> {}

RecognisedModes == {"full", "zone_concept_only", "consciousness_only", "guidance_only"}

\* C2: the key set of the map generate_analysis returns is determined by the
\* mode alone: the four keys for full, the one matching key for an _only mode,
\* no key for any other mode string; and in any other mode generate_analysis
\* returns (the empty map) without raising, whatever the configuration.
C2_KeysByMode ==
    /\ Assembled => /\ KeySet(analyses) = ModeKeys(analysis_type)
                    /\ Len(analyses) = Cardinality(ModeKeys(analysis_type))
    /\ (pc = "exited" /\ raised = "assembly") => analysis_type \in RecognisedModes

C2_Witness ==
    /\ pc = "exited"
    /\ status = "0"
    /\ analysis_type = "full"
    /\ Keys(analyses) = Categories

ZoneKw == <<"zone", " ", "concept">>

\* C3: classification follows the fixed rule order on the lower-cased prompt
\* (zone concept, else consciousness, else guidance, else comprehensive), so the
\* router returns a template for every prompt, the empty one included, whenever
\* the context block can be built from the configuration.
C3_RuleOrder ==
    /\ pc = "router_returned" =>
          /\ (response = _generate_zone_concept_response) <=> Contains(Lower(prompt), ZoneKw)
          /\ (response = _generate_consciousness_response) <=>
                (~Contains(Lower(prompt), ZoneKw) /\ Contains(Lower(prompt), <<"consciousness">>))
          /\ (response = _generate_guidance_response) <=>
                (/\ ~Contains(Lower(prompt), ZoneKw)
                 /\ ~Contains(Lower(prompt), <<"consciousness">>)
                 /\ Contains(Lower(prompt), <<"guidance">>))
          /\ (response = _generate_comprehensive_response) <=>
                (/\ ~Contains(Lower(prompt), ZoneKw)
                 /\ ~Contains(Lower(prompt), <<"consciousness">>)
                 /\ ~Contains(Lower(prompt), <<"guidance">>))
    /\ pc = "router_raised" => ~ContextOK(regcyc_data)

\* a prompt with both "zone concept" and "consciousness", the latter first
C3_Witness ==
    /\ pc = "router_returned"
    /\ prompt = <<"Consciousness", "Zone", " ", "concept">>
    /\ response = _generate_zone_concept_response

-----------------------------------------------------------------------------
(* Properties of save_outputs *)

\* the files this invocation has opened for writing
RunFiles == {n \in DOMAIN disk : disk[n].run = run_no}

\* a file name is that of the summary, of a snapshot, of a per-category file
IsSummary(n)  == n = SummaryFileName
IsSnapshot(n) == Len(n) = 3 /\ n[1] = "regima_ai_analysis_" /\ n[3] = ".json"
IsAnalysis(n) == Len(n) = 5 /\ n[1] = "regima_" /\ n[3] = "_analysis_" /\ n[5] = ".md"

\* the YYYYMMDD_HHMMSS token of a timestamped file name
Token(n) == IF IsSnapshot(n) THEN <<n[2]>> ELSE <<n[4]>>

\* the generation instant embedded in a wholly written file
Embedded(n) ==
    IF IsSnapshot(n) THEN Get(disk[n].text, <<"timestamp">>, JNull).v
    ELSE disk[n].text.generated

\* the seconds of an isoformat instant, as strftime prints them
SecondsOf(iso) == <<iso[1]>>

\* C4: within one call of save_outputs every embedded generation instant (the
\* Generated line of each per-category file, that of the summary, the timestamp
\* field of the snapshot) carries the one value captured at entry, even when
\* the clock advances between the writes.
C4_OneInstant ==
    \A n \in RunFiles : disk[n].complete =>
        /\ SecondsOf(Embedded(n)) = timestamp
        /\ \A m \in RunFiles : disk[m].complete => Embedded(m) = Embedded(n)

\* C5: within one call of save_outputs every timestamped file name carries the
\* same YYYYMMDD_HHMMSS token, the one captured at entry, however many
\* categories there are and however far the clock advances meanwhile.
C5_OneToken ==
    \A n \in RunFiles : ~IsSummary(n) =>
        /\ IsSnapshot(n) \/ IsAnalysis(n)
        /\ Token(n) = timestamp
        /\ \A m \in RunFiles : ~IsSummary(m) => Token(m) = Token(n)

\* a full run whose snapshot was written in a later second than the one captured
C5_Witness ==
    /\ pc = "exited"
    /\ status = "0"
    /\ analysis_type = "full"
    /\ Cardinality(RunFiles) = 6
    /\ Strftime(clock) # timestamp

\* C6: no run overwrites a per-category file or a snapshot written by a prior
\* run; the only file a later run overwrites is ai_insights_summary.md.
C6_NoOverwrite ==
    [][\A n \in DOMAIN disk :
          (~IsSummary(n) /\ disk[n].run < run_no) => disk'[n] = disk[n]]_vars

\* the dict a reader of the snapshot gets from an object of strings
LoadDict(j) == [i \in 1..Len(j.v) |-> <<j.v[i][1][1], j.v[i][2].v>>]

\* C7: the snapshot a successful save_outputs writes has an ai_analyses field
\* equal, key for key and value for value, to the map generate_analysis
\* returned in that run, and an analysis_type field equal to the run's mode.
C7_SnapshotIsMap ==
    \A n \in RunFiles : (IsSnapshot(n) /\ disk[n].complete) =>
        /\ LoadDict(Get(disk[n].text, <<"ai_analyses">>, EmptyMap)) = analyses
        /\ Get(disk[n].text, <<"analysis_type">>, JNull) = JStr(<<analysis_type>>)
        /\ KeySet(analyses) = ModeKeys(analysis_type)

\* mode consciousness_only: the snapshot's ai_analyses has the one key consciousness
C7_Witness ==
    /\ pc = "exited"
    /\ status = "0"
    /\ analysis_type = "consciousness_only"
    /\ regcyc_data = ActiveConfig
    /\ \E n \in RunFiles :
          /\ IsSnapshot(n)
          /\ Keys(LoadDict(Get(disk[n].text, <<"ai_analyses">>, EmptyMap))) = <<"consciousness">>

-----------------------------------------------------------------------------
(* Properties of failures *)

\* the document is missing, or its content is malformed
Unusable == {"missing", "bad_json", "bad_utf8"}

\* the artifacts of this run, wholly written
Written(n) == n \in RunFiles /\ disk[n].complete
AnalysisWritten(i) ==
    /\ Written(AnalysisFileName(analyses[i][1], timestamp))
    /\ disk[AnalysisFileName(analyses[i][1], timestamp)].text.content = analyses[i][2]
AllWritten ==
    /\ \A i \in 1..Len(analyses) : AnalysisWritten(i)
    /\ Written(SummaryFileName)
    /\ Written(SnapshotFileName(timestamp))

StorageFailures == {"write_analysis", "write_summary", "write_snapshot"}

\* C8: a missing file or malformed content never makes loading fail:
\* _load_json_file returns the empty mapping, and the run goes on through
\* assembly and persistence with all-default values, producing the files of
\* the mode, the summary and the snapshot (unless storage fails).
C8_FailSoft ==
    /\ regcyc_file \in Unusable => (raised # "load_regcyc" /\ regcyc_data = EmptyMap)
    /\ cycle_file \in Unusable => (raised # "load_cycle" /\ cycle_completion_data = EmptyMap)
    /\ (pc = "exited" /\ regcyc_file \in Unusable /\ cycle_file \in Unusable
          /\ raised \notin StorageFailures)
          => (status = "0" /\ AllWritten /\ KeySet(analyses) = ModeKeys(analysis_type))

\* C9: a run ends with a non-zero status if and only if a failure was raised
\* during assembly or persistence; a run whose assembly and writes all
\* complete ends with status zero.
C9_ExitStatus ==
    pc = "exited" =>
        /\ status # "0" <=> raised \in {"assembly", "create_summary", "json_output"}
                                          \cup StorageFailures
        /\ (timestamp # <<>> /\ AllWritten) => status = "0"

\* C9 as amended: the status is non-zero if and only if a failure was raised
\* in construction (mkdir, or an error of a load that _load_json_file does not
\* catch), in assembly or in persistence.
C9_ExitStatusAmended ==
    pc = "exited" =>
        /\ status \in {"0", "1"}
        /\ status # "0" <=> raised \in {"mkdir", "load_regcyc", "load_cycle", "assembly",
                                          "create_summary", "json_output"} \cup StorageFailures
        /\ status = "0" <=> raised = "none"
        /\ (timestamp # <<>> /\ AllWritten) => status = "0"

\* the second write of a full run failed after the first file was written
C9_Witness ==
    /\ pc = "exited"
    /\ status = "1"
    /\ raised = "write_analysis"
    /\ analysis_type = "full"
    /\ idx = 2
    /\ AnalysisWritten(1)

\* nothing of this run is in the file
NotWritten(n) == n \notin RunFiles
\* the write of the file did not complete
Failed(n) == ~Written(n)

\* what a failure raised at `where` leaves: the artifacts before it whole,
\* the one it hit not whole, the ones after it not written, status non-zero
Aborted(where) ==
    /\ status = "1"
    /\ where = "write_analysis" =>
          /\ idx \in 1..Len(analyses)
          /\ \A i \in 1..(idx - 1) : AnalysisWritten(i)
          /\ Failed(AnalysisFileName(analyses[idx][1], timestamp))
          /\ \A i \in (idx + 1)..Len(analyses) :
                NotWritten(AnalysisFileName(analyses[i][1], timestamp))
          /\ NotWritten(SummaryFileName)
          /\ NotWritten(SnapshotFileName(timestamp))
    /\ where \in {"create_summary", "write_summary"} =>
          /\ \A i \in 1..Len(analyses) : AnalysisWritten(i)
          /\ IF where = "create_summary" THEN NotWritten(SummaryFileName)
             ELSE Failed(SummaryFileName)
          /\ NotWritten(SnapshotFileName(timestamp))
    /\ where \in {"json_output", "write_snapshot"} =>
          /\ \A i \in 1..Len(analyses) : AnalysisWritten(i)
          /\ Written(SummaryFileName)
          /\ IF where = "json_output" THEN NotWritten(SnapshotFileName(timestamp))
             ELSE Failed(SnapshotFileName(timestamp))

\* C10: a storage failure on any write inside save_outputs is propagated: the
\* remaining artifacts are not written, those written before stay, the status
\* is non-zero.  Otherwise save_outputs completes all artifacts of the run.
C10_StorageOnly ==
    (pc = "exited" /\ timestamp # <<>>) =>
        IF raised \in StorageFailures THEN Aborted(raised)
        ELSE AllWritten /\ status = "0"

\* C10 as amended: any failure raised inside save_outputs, a storage failure on
\* a write or an error raised while the summary is composed, is propagated in
\* that way.  Otherwise save_outputs completes all artifacts of the run.
C10_Propagated ==
    (pc = "exited" /\ timestamp # <<>>) =>
        IF raised \in StorageFailures \cup {"create_summary", "json_output"}
        THEN Aborted(raised)
        ELSE raised = "none" /\ AllWritten /\ status = "0"

\* the summary of a full run could not be written after its four files were
C10_Witness ==
    /\ pc = "exited"
    /\ raised = "write_summary"
    /\ analysis_type = "full"
    /\ \A i \in 1..4 : AnalysisWritten(i)
    /\ SummaryFileName \in RunFiles
    /\ ~disk[SummaryFileName].complete

-----------------------------------------------------------------------------
(* Properties of the templates *)

\* C11: each of the four template methods returns a non-empty string that is
\* the same on every call and under every configuration, the empty mapping
\* included: no value of the configuration is written into a template.
C11_FixedTemplates ==
    \A i \in 1..Len(analyses) :
        /\ analyses[i][2] # <<>>
        /\ \A j \in 1..Len(analyses) :
              analyses[i][1] = analyses[j][1] => analyses[i][2] = analyses[j][2]

\* the templates were rendered under the empty mapping and under a document whose
\* headline fields are set
C11_Witness ==
    /\ pc = "rendered"
    /\ Len(analyses) = 8
    /\ analyses[2][3] = EmptyMap
    /\ analyses[6][3] = RichConfig
    /\ analyses[2][1] = "consciousness"
    /\ analyses[6][2] = analyses[2][2]

-----------------------------------------------------------------------------
(* Properties of the order of the writes *)

\* the place of a category in the fixed order of assembly
Place(key) == CHOOSE k \in 1..Len(Categories) : Categories[k] = key

\* C12: save_outputs writes the per-category files in the insertion order of
\* the report map (zone_concept, consciousness, guidance, comprehensive, as far
\* as present), then the summary, then the snapshot last; so in a run into an
\* empty directory, once the snapshot of token T exists, the summary and the
\* per-category file of token T of every key of the map exist already.
C12_WriteOrder ==
    /\ \A i, j \in 1..Len(analyses) : i < j => Place(analyses[i][1]) < Place(analyses[j][1])
    /\ \A i \in 1..Len(analyses) :
          AnalysisFileName(analyses[i][1], timestamp) \in DOMAIN disk
             => \A j \in 1..(i - 1) : AnalysisWritten(j)
    /\ SummaryFileName \in DOMAIN disk => \A i \in 1..Len(analyses) : AnalysisWritten(i)
    /\ \A n \in DOMAIN disk : IsSnapshot(n) =>
          /\ Token(n) = timestamp
          /\ Written(SummaryFileName)
          /\ \A i \in 1..Len(analyses) :
                /\ AnalysisFileName(analyses[i][1], Token(n)) \in DOMAIN disk
                /\ AnalysisWritten(i)

\* the snapshot of a full run is on disk, after the summary and the four files
C12_Witness ==
    /\ analysis_type = "full"
    /\ Keys(analyses) = Categories
    /\ SnapshotFileName(timestamp) \in DOMAIN disk
    /\ Cardinality(DOMAIN disk) = 6

-----------------------------------------------------------------------------
(* Properties across configurations *)

\* a mapping whose nested values have the types the accessors expect
WellTyped(data) == ContextOK(data)

\* C13: the map generate_analysis returns depends on the mode alone: for two
\* configurations that are mappings with well-typed nested values, texts with
\* the routing keywords included, the same mode gives the same map.
C13_ModeOnly ==
    \A i, j \in 1..Len(disk) :
        (/\ WellTyped(disk[i].data)
         /\ WellTyped(disk[j].data)
         /\ disk[i].mode = disk[j].mode) => disk[i].map = disk[j].map

\* a full call under the empty mapping and a full call under the document
\* whose texts carry the routing keywords have both returned four entries
C13_Witness ==
    /\ Len(disk) = 2
    /\ disk[1].mode = "full" /\ disk[2].mode = "full"
    /\ disk[1].data = EmptyMap /\ disk[2].data = RichConfig
    /\ Len(disk[1].map) = 4 /\ Len(disk[2].map) = 4

-----------------------------------------------------------------------------
(* Properties of a run in a mode that selects no category *)

\* run was called, in a mode that is none of the four that select a category
UnrecognisedRun ==
    /\ pc = "exited"
    /\ raised \notin {"mkdir", "load_regcyc", "load_cycle"}
    /\ analysis_type \notin RecognisedModes

\* what the run of an empty report map leaves: no per-category file, the
\* summary with an empty list of components, one snapshot with an empty object
EmptyPersisted ==
    /\ \A n \in RunFiles : ~IsAnalysis(n)
    /\ Written(SummaryFileName)
    /\ disk[SummaryFileName].text.components = <<>>
    /\ {n \in RunFiles : IsSnapshot(n)} = {SnapshotFileName(timestamp)}
    /\ Written(SnapshotFileName(timestamp))
    /\ Get(disk[SnapshotFileName(timestamp)].text, <<"ai_analyses">>, JNull) = EmptyMap

\* a run that ended with status zero wrote one file for each key of the report
\* map, the summary and the snapshot
KeysPlusTwo ==
    (pc = "exited" /\ status = "0") => Cardinality(RunFiles) = Len(analyses) + 2

\* C14: a run in a mode that selects no category still persists: it writes no
\* per-category file, writes the summary with an empty list of components and
\* one snapshot whose ai_analyses is the empty object, and ends with status
\* zero (storage permitting); a successful run writes keys + 2 files.
C14_EmptyRun ==
    /\ (UnrecognisedRun /\ raised \notin StorageFailures) => (status = "0" /\ EmptyPersisted)
    /\ KeysPlusTwo

\* C14 as amended: so it is when the configuration is a mapping whose
\* organizationalConsciousness and cycleCompletion sections are mappings;
\* under any other configuration _create_summary raises, the run writes
\* nothing and ends with status 1.
C14_EmptyRunAmended ==
    /\ (UnrecognisedRun /\ raised \notin StorageFailures /\ HeadlineOK(regcyc_data))
          => (status = "0" /\ EmptyPersisted)
    /\ (UnrecognisedRun /\ ~HeadlineOK(regcyc_data))
          => (status = "1" /\ raised = "create_summary" /\ RunFiles = {})
    /\ KeysPlusTwo

\* a comprehensive_only run, under a configuration whose focus areas are no
\* list, ended with status zero and left the summary and the snapshot alone
C14_Witness ==
    /\ UnrecognisedRun
    /\ analysis_type = "comprehensive_only"
    /\ regcyc_data = BadFocusConfig
    /\ analyses = <<>>
    /\ status = "0"
    /\ EmptyPersisted
    /\ Cardinality(RunFiles) = 2

====
